---- MODULE Spec2Model ----
(***************************************************************************)
(* Model of Tiktok.py: the TikTokCountryAnalyzer series simulator, its     *)
(* trend-adjustment pass, and the main() driver around it.                 *)
(*                                                                         *)
(* Numbers.  The Python code computes with floats.  The model computes     *)
(* with exact rationals: a number is a record [s, n, d] with sign s in     *)
(* {-1, 0, 1}, numerator magnitude n and denominator d > 0, both           *)
(* arbitrary-precision naturals written as little-endian sequences of      *)
(* base-10000 limbs (likes and revenues exceed 32 bits).  Rationals are    *)
(* not reduced; they are compared by cross-multiplication (REq, RLe).      *)
(***************************************************************************)
EXTENDS Integers, Sequences, FiniteSets, TLC

VARIABLES
    pc,         \* position of the run
    entry,      \* "main": through main(); "direct": a caller of the class
    selection,  \* the line read by input() in main()
    notice,     \* "Choix invalide" was printed
    analyzer,   \* the TikTokCountryAnalyzer object (self)
    data,       \* the dictionary generate_tiktok_data fills
    df,         \* the DataFrame of the current generate_tiktok_data call
    prev_df,    \* the DataFrame the previous call on this analyzer returned
    runs,       \* completed generate_tiktok_data calls on this analyzer
    csv,        \* the exported file
    report,     \* what create_tiktok_analysis drew and printed
    loop        \* the frame of one call of _simulate_user_growth_rate

(***************************************************************************)
(* Arbitrary-precision naturals.                                           *)
(***************************************************************************)
RECURSIVE BigOf(_)
BigOf(k) == IF k = 0 THEN <<>> ELSE <<k % 10000>> \o BigOf(k \div 10000)

RECURSIVE BAddC(_, _, _)
BAddC(a, b, c) ==
    IF a = <<>> /\ b = <<>>
    THEN (IF c = 0 THEN <<>> ELSE <<c>>)
    ELSE LET x == (IF a = <<>> THEN 0 ELSE Head(a))
                  + (IF b = <<>> THEN 0 ELSE Head(b)) + c
         IN  <<x % 10000>> \o BAddC(IF a = <<>> THEN <<>> ELSE Tail(a),
                                    IF b = <<>> THEN <<>> ELSE Tail(b),
                                    x \div 10000)

BAdd(a, b) == BAddC(a, b, 0)

RECURSIVE BStrip(_)
BStrip(a) ==
    IF a = <<>> THEN <<>>
    ELSE IF a[Len(a)] = 0 THEN BStrip(SubSeq(a, 1, Len(a) - 1)) ELSE a

RECURSIVE BCmpAt(_, _, _)
BCmpAt(a, b, k) ==
    IF k = 0 THEN 0
    ELSE IF a[k] < b[k] THEN -1
    ELSE IF a[k] > b[k] THEN 1
    ELSE BCmpAt(a, b, k - 1)

\* -1, 0, 1 as a < b, a = b, a > b
BCmp(a, b) ==
    IF Len(a) < Len(b) THEN -1
    ELSE IF Len(a) > Len(b) THEN 1
    ELSE BCmpAt(a, b, Len(a))

RECURSIVE BSubC(_, _, _)
BSubC(a, b, c) ==
    IF a = <<>> THEN <<>>
    ELSE LET x == Head(a) - (IF b = <<>> THEN 0 ELSE Head(b)) - c
         IN  <<(x + 10000) % 10000>>
             \o BSubC(Tail(a), IF b = <<>> THEN <<>> ELSE Tail(b),
                      IF x < 0 THEN 1 ELSE 0)

\* a - b for a >= b
BSub(a, b) == BStrip(BSubC(a, b, 0))

RECURSIVE BMulSmallC(_, _, _)
BMulSmallC(a, k, c) ==
    IF a = <<>> THEN (IF c = 0 THEN <<>> ELSE <<c>>)
    ELSE LET x == Head(a) * k + c
         IN  <<x % 10000>> \o BMulSmallC(Tail(a), k, x \div 10000)

\* a * k for a limb k in 0..9999
BMulSmall(a, k) == IF k = 0 THEN <<>> ELSE BMulSmallC(a, k, 0)

RECURSIVE BMul(_, _)
BMul(a, b) ==
    IF a = <<>> \/ b = <<>> THEN <<>>
    ELSE LET r == BMul(a, Tail(b))
         IN  BAdd(BMulSmall(a, Head(b)), IF r = <<>> THEN <<>> ELSE <<0>> \o r)

(***************************************************************************)
(* Exact rationals over the naturals above.                                *)
(***************************************************************************)
\* the rational num/den for machine integers num (any sign) and den > 0
D(num, den) ==
    [s |-> IF num > 0 THEN 1 ELSE IF num < 0 THEN -1 ELSE 0,
     n |-> BigOf(IF num < 0 THEN -num ELSE num),
     d |-> BigOf(den)]

RInt(k) == D(k, 1)

RMul(a, b) == [s |-> a.s * b.s, n |-> BMul(a.n, b.n), d |-> BMul(a.d, b.d)]

RNeg(a) == [a EXCEPT !.s = -a.s]

RAdd(a, b) ==
    LET x == BMul(a.n, b.d)
        y == BMul(b.n, a.d)
        den == BMul(a.d, b.d)
        c == BCmp(x, y)
    IN  IF a.s = 0 THEN b
        ELSE IF b.s = 0 THEN a
        ELSE IF a.s = b.s THEN [s |-> a.s, n |-> BAdd(x, y), d |-> den]
        ELSE IF c = 0 THEN [s |-> 0, n |-> <<>>, d |-> den]
        ELSE IF c > 0 THEN [s |-> a.s, n |-> BSub(x, y), d |-> den]
        ELSE [s |-> b.s, n |-> BSub(y, x), d |-> den]

RSub(a, b) == RAdd(a, RNeg(b))

\* a / b for b # 0
RDiv(a, b) == [s |-> a.s * b.s, n |-> BMul(a.n, b.d), d |-> BMul(a.d, b.n)]

\* sign of a - b
RCmp(a, b) ==
    IF a.s # b.s THEN (IF a.s < b.s THEN -1 ELSE 1)
    ELSE IF a.s = 0 THEN 0
    ELSE a.s * BCmp(BMul(a.n, b.d), BMul(b.n, a.d))

REq(a, b) == RCmp(a, b) = 0
RLe(a, b) == RCmp(a, b) <= 0
RMin(a, b) == IF RLe(a, b) THEN a ELSE b
RIsNum(a) == a.s \in {-1, 0, 1} /\ a.d # <<>> /\ (a.s = 0 <=> a.n = <<>>)

(***************************************************************************)
(* Program constants.                                                      *)
(***************************************************************************)
start_year == 2016
end_year == 2025

\* the country list of main()
countries ==
    << "United States", "China", "India", "Brazil", "Indonesia",
       "Russia", "Mexico", "Vietnam", "Philippines", "Thailand",
       "United Kingdom", "France", "Germany", "Japan", "South Korea" >>

Profile(pop, users, market, spec) ==
    [population_base |-> pop, tiktok_users_base |-> users,
     market_type |-> market, specialties |-> spec]

\* the configs dictionary of _get_country_config
configs ==
    [name \in {countries[k] : k \in 1..Len(countries)} \cup {"default"} |->
       CASE name = "United States" ->
              Profile(331000000, 100000000, "mature",
                      {"entertainment", "influencers", "business", "ads", "music"})
         [] name = "China" ->
              Profile(1400000000, 600000000, "domestic",
                      {"e-commerce", "live-streaming", "education", "government"})
         [] name = "India" ->
              Profile(1380000000, 200000000, "emerging",
                      {"entertainment", "music", "dance", "regional_content"})
         [] name = "Brazil" ->
              Profile(213000000, 82000000, "growing",
                      {"music", "dance", "comedy", "social_causes"})
         [] name = "Indonesia" ->
              Profile(274000000, 99000000, "growing",
                      {"islamic_content", "comedy", "local_business", "education"})
         [] name = "Russia" ->
              Profile(144000000, 50000000, "regulated",
                      {"politics", "comedy", "challenges", "music"})
         [] name = "Mexico" ->
              Profile(128000000, 57500000, "growing",
                      {"music", "comedy", "beauty", "family_content"})
         [] name = "Vietnam" ->
              Profile(97300000, 50000000, "booming",
                      {"music", "dance", "comedy", "educational"})
         [] name = "Philippines" ->
              Profile(110000000, 43500000, "booming",
                      {"dance", "comedy", "family_content", "challenges"})
         [] name = "Thailand" ->
              Profile(70000000, 40000000, "mature",
                      {"beauty", "comedy", "food", "music"})
         [] name = "United Kingdom" ->
              Profile(67000000, 23000000, "mature",
                      {"comedy", "politics", "business", "education"})
         [] name = "France" ->
              Profile(68000000, 24000000, "mature",
                      {"humor", "politics", "culture", "fashion"})
         [] name = "Germany" ->
              Profile(83000000, 22000000, "growing",
                      {"comedy", "education", "politics", "business"})
         [] name = "Japan" ->
              Profile(126000000, 17000000, "emerging",
                      {"anime", "music", "beauty", "comedy"})
         [] name = "South Korea" ->
              Profile(52000000, 15000000, "growing",
                      {"k-pop", "beauty", "fashion", "dance"})
         [] OTHER ->
              Profile(50000000, 10000000, "emerging",
                      {"entertainment", "music", "comedy"})]

\* variant of _get_country_config falling back to the first entry
get_country_config_first(name) ==
    IF name \in DOMAIN configs THEN configs[name] ELSE configs[countries[1]]

\* configs.get(self.country, configs["default"])
_get_country_config(name) ==
    IF name \in DOMAIN configs THEN configs[name] ELSE configs["default"]

\* TikTokCountryAnalyzer.__init__
TikTokCountryAnalyzer(country_name) ==
    [country |-> country_name,
     start_year |-> start_year,
     end_year |-> end_year,
     config |-> _get_country_config(country_name)]

\* variant of date_range that leaves out the end year
date_range_open(first, last) == [k \in 1..(last - first) |-> first + k - 1]

\* pd.date_range(start=f'{start_year}-01-01', end=f'{end_year}-12-31', freq='Y'):
\* one year-end date per year; a date is modelled by its .year
date_range(first, last) == [k \in 1..(last - first + 1) |-> first + k - 1]

(***************************************************************************)
(* The simulation stages.  Each takes the analyzer (self) and a list of    *)
(* dates and returns one value per date; enumerate's index i is k - 1.     *)
(* A downstream stage re-derives its upstream value by calling the         *)
(* upstream stage on the one-element list [date] and taking element 0.     *)
(***************************************************************************)
\* the if/elif chain on year < 2018, < 2020, < 2022 shared by the stages
YearBracket(year, a, b, c, e) ==
    IF year < 2018 THEN a ELSE IF year < 2020 THEN b ELSE IF year < 2022 THEN c ELSE e

_simulate_population(self, dates) ==
    [k \in 1..Len(dates) |->
       LET i == k - 1
           growth_rate == IF self.config.market_type = "mature" THEN D(4, 1000)
                          ELSE IF self.config.market_type = "booming" THEN D(12, 1000)
                          ELSE D(8, 1000)
           growth == RAdd(RInt(1), RMul(growth_rate, RInt(i)))
       IN  RMul(RInt(self.config.population_base), growth)]

\* variant of _simulate_tiktok_users that leaves out the min(..., max_users)
unclamped_tiktok_users(self, dates) ==
    [k \in 1..Len(dates) |->
       LET i == k - 1
           year == dates[k]
           growth_rate ==
               IF self.config.market_type = "mature"
               THEN (IF year < 2020 THEN D(35, 100) ELSE D(8, 100))
               ELSE IF self.config.market_type = "booming" THEN D(25, 100)
               ELSE IF self.config.market_type = "emerging" THEN D(40, 100)
               ELSE D(15, 100)
           growth == RAdd(RInt(1), RMul(growth_rate, RInt(i)))
       IN  RMul(RInt(self.config.tiktok_users_base), growth)]

_simulate_tiktok_users(self, dates) ==
    [k \in 1..Len(dates) |->
       LET i == k - 1
           year == dates[k]
           growth_rate ==
               IF self.config.market_type = "mature"
               THEN (IF year < 2020 THEN D(35, 100) ELSE D(8, 100))
               ELSE IF self.config.market_type = "booming" THEN D(25, 100)
               ELSE IF self.config.market_type = "emerging" THEN D(40, 100)
               ELSE D(15, 100)
           growth == RAdd(RInt(1), RMul(growth_rate, RInt(i)))
           max_percentage == IF self.config.market_type # "domestic"
                             THEN D(65, 100) ELSE D(45, 100)
           max_users == RMul(RInt(self.config.population_base), max_percentage)
       IN  RMin(RMul(RInt(self.config.tiktok_users_base), growth), max_users)]

_simulate_active_users(self, dates) ==
    [k \in 1..Len(dates) |->
       LET active_rate == IF self.config.market_type = "mature" THEN D(75, 100)
                          ELSE IF self.config.market_type = "booming" THEN D(85, 100)
                          ELSE D(70, 100)
       IN  RMul(_simulate_tiktok_users(self, <<dates[k]>>)[1], active_rate)]

_simulate_time_spent(self, dates) ==
    [k \in 1..Len(dates) |->
       LET base_time == RInt(45)
           time == RMul(base_time,
                        YearBracket(dates[k], D(7, 10), D(9, 10), D(11, 10), D(12, 10)))
       IN  IF self.config.market_type = "booming" THEN RMul(time, D(115, 100))
           ELSE IF self.config.market_type = "emerging" THEN RMul(time, D(125, 100))
           ELSE time]

_simulate_videos_uploaded(self, dates) ==
    [k \in 1..Len(dates) |->
       LET base == YearBracket(dates[k], D(8, 10), D(12, 10), D(15, 10), D(18, 10))
           videos_per_user ==
               IF self.config.market_type = "booming" THEN RMul(base, D(13, 10))
               ELSE IF "comedy" \in self.config.specialties THEN RMul(base, D(12, 10))
               ELSE base
       IN  RMul(RMul(_simulate_active_users(self, <<dates[k]>>)[1], videos_per_user),
                RInt(365))]

_simulate_likes_count(self, dates) ==
    [k \in 1..Len(dates) |->
       LET likes_per_video ==
               YearBracket(dates[k], RInt(150), RInt(250), RInt(350), RInt(400))
       IN  RMul(_simulate_videos_uploaded(self, <<dates[k]>>)[1], likes_per_video)]

_simulate_shares_count(self, dates) ==
    [k \in 1..Len(dates) |->
       LET share_ratio == D(8, 100)
       IN  RMul(_simulate_likes_count(self, <<dates[k]>>)[1], share_ratio)]

_simulate_comments_count(self, dates) ==
    [k \in 1..Len(dates) |->
       LET comment_ratio == D(5, 100)
       IN  RMul(_simulate_likes_count(self, <<dates[k]>>)[1], comment_ratio)]

_simulate_ad_revenue(self, dates) ==
    [k \in 1..Len(dates) |->
       LET base == YearBracket(dates[k], D(25, 10), D(50, 10), D(80, 10), D(120, 10))
           revenue_per_user ==
               IF self.config.market_type = "mature" THEN RMul(base, D(15, 10))
               ELSE IF self.config.market_type = "regulated" THEN RMul(base, D(7, 10))
               ELSE base
       IN  RMul(_simulate_active_users(self, <<dates[k]>>)[1], revenue_per_user)]

_simulate_creator_earnings(self, dates) ==
    [k \in 1..Len(dates) |->
       LET creator_ratio == D(25, 100)
       IN  RMul(_simulate_ad_revenue(self, <<dates[k]>>)[1], creator_ratio)]

\* variant of _simulate_ecommerce_revenue without the specialty bonus
ecommerce_revenue_without_bonus(self, dates) ==
    [k \in 1..Len(dates) |->
       LET year == dates[k]
           ad == _simulate_ad_revenue(self, <<dates[k]>>)[1]
       IN  IF year < 2019 THEN RInt(0)
           ELSE IF year < 2021 THEN RMul(ad, D(1, 10))
           ELSE IF year < 2023 THEN RMul(ad, D(2, 10))
           ELSE RMul(ad, D(3, 10))]

_simulate_ecommerce_revenue(self, dates) ==
    [k \in 1..Len(dates) |->
       LET year == dates[k]
           ad == _simulate_ad_revenue(self, <<dates[k]>>)[1]
           ecommerce_revenue ==
               IF year < 2019 THEN RInt(0)
               ELSE IF year < 2021 THEN RMul(ad, D(1, 10))
               ELSE IF year < 2023 THEN RMul(ad, D(2, 10))
               ELSE RMul(ad, D(3, 10))
       IN  IF "e-commerce" \in self.config.specialties
           THEN RMul(ecommerce_revenue, D(15, 10))
           ELSE ecommerce_revenue]

_simulate_engagement_rate(self, dates) ==
    [k \in 1..Len(dates) |->
       LET rate == YearBracket(dates[k], D(12, 100), D(16, 100), D(18, 100), D(20, 100))
       IN  IF self.config.market_type = "booming" THEN RMul(rate, D(115, 100))
           ELSE rate]

\* variant of previous_users seeded with population_base
previous_users_from_population(self, dates, k) ==
    IF k = 1 THEN RInt(self.config.population_base)
    ELSE _simulate_tiktok_users(self, <<dates[k - 1]>>)[1]

\* variant of previous_users that keeps the value of the last call on the
\* analyzer instead of re-seeding
previous_users_kept(self, dates, k) ==
    IF k = 1
    THEN (IF DOMAIN prev_df = {} THEN RInt(self.config.tiktok_users_base)
          ELSE prev_df["TikTok_Users"][Len(prev_df["TikTok_Users"])])
    ELSE _simulate_tiktok_users(self, <<dates[k - 1]>>)[1]

\* previous_users before position k of the loop: the seed, then the
\* current_users of the iteration before
previous_users(self, dates, k) ==
    IF k = 1 THEN RInt(self.config.tiktok_users_base)
    ELSE _simulate_tiktok_users(self, <<dates[k - 1]>>)[1]

\* a / b of Python: ZeroDivisionError when b is 0
truediv(a, b) ==
    IF b.s = 0 THEN [exc |-> "ZeroDivisionError", value |-> RInt(0)]
    ELSE [exc |-> "none", value |-> RDiv(a, b)]

\* variant of growth_rate that divides whatever previous_users is
growth_rate_unguarded(current_users, previous) ==
    LET q == truediv(RSub(current_users, previous), previous)
    IN  [exc |-> q.exc, value |-> q.value, divisor |-> <<previous>>]

\* (current_users - previous_users) / previous_users if previous_users > 0
\* else 0: the outcome, the value and the divisor of the division performed
growth_rate(current_users, previous) ==
    IF previous.s > 0
    THEN LET q == truediv(RSub(current_users, previous), previous)
         IN  [exc |-> q.exc, value |-> q.value, divisor |-> <<previous>>]
    ELSE [exc |-> "none", value |-> RInt(0), divisor |-> <<>>]

\* variant of _simulate_user_growth_rate that reads the year's own entry of
\* the users series instead of re-deriving it from [date]
growth_rate_of_series(self, dates) ==
    [k \in 1..Len(dates) |->
       LET users == _simulate_tiktok_users(self, dates)
           current_users == users[k]
           previous == IF k = 1 THEN RInt(self.config.tiktok_users_base)
                       ELSE users[k - 1]
       IN  IF previous.s > 0
           THEN RDiv(RSub(current_users, previous), previous)
           ELSE RInt(0)]

_simulate_user_growth_rate(self, dates) ==
    [k \in 1..Len(dates) |->
       LET current_users == _simulate_tiktok_users(self, <<dates[k]>>)[1]
           previous == previous_users(self, dates, k)
       IN  growth_rate(current_users, previous).value]

_simulate_virality_score(self, dates) ==
    [k \in 1..Len(dates) |->
       LET score == YearBracket(dates[k], D(12, 10), D(15, 10), D(18, 10), D(20, 10))
       IN  IF "music" \in self.config.specialties \/ "dance" \in self.config.specialties
           THEN RMul(score, D(12, 10))
           ELSE score]

_simulate_young_users(self, dates) ==
    [k \in 1..Len(dates) |->
       LET young_ratio == IF self.config.market_type = "mature"
                          THEN D(45, 100) ELSE D(60, 100)
       IN  RMul(_simulate_tiktok_users(self, <<dates[k]>>)[1], young_ratio)]

_simulate_adult_users(self, dates) ==
    [k \in 1..Len(dates) |->
       LET adult_ratio == D(30, 100)
       IN  RMul(_simulate_tiktok_users(self, <<dates[k]>>)[1], adult_ratio)]

_simulate_older_users(self, dates) ==
    [k \in 1..Len(dates) |->
       LET young_ratio == IF self.config.market_type = "mature"
                          THEN D(45, 100) ELSE D(60, 100)
           adult_ratio == D(30, 100)
           older_ratio == RSub(RSub(RInt(1), young_ratio), adult_ratio)
       IN  RMul(_simulate_tiktok_users(self, <<dates[k]>>)[1], older_ratio)]

(***************************************************************************)
(* The table.  A frame maps each column name to its list of cells.         *)
(***************************************************************************)
Columns ==
    << "Year", "Population", "TikTok_Users", "Active_Users", "Time_Spent_Per_User",
       "Videos_Uploaded", "Likes_Count", "Shares_Count", "Comments_Count",
       "Ad_Revenue", "Creator_Earnings", "E_Commerce_Revenue",
       "Engagement_Rate", "User_Growth_Rate", "Virality_Score",
       "Users_Under_25", "Users_25_34", "Users_Over_35" >>

ColumnSet == {Columns[c] : c \in 1..Len(Columns)}
MetricColumns == ColumnSet \ {"Year"}

\* no dictionary entries / no frame
Empty == [c \in {} |-> <<>>]

\* the right-hand side of data[col] = ... in generate_tiktok_data
ColumnValue(self, col, dates) ==
    CASE col = "Year" -> [k \in 1..Len(dates) |-> dates[k]]
      [] col = "Population" -> _simulate_population(self, dates)
      [] col = "TikTok_Users" -> _simulate_tiktok_users(self, dates)
      [] col = "Active_Users" -> _simulate_active_users(self, dates)
      [] col = "Time_Spent_Per_User" -> _simulate_time_spent(self, dates)
      [] col = "Videos_Uploaded" -> _simulate_videos_uploaded(self, dates)
      [] col = "Likes_Count" -> _simulate_likes_count(self, dates)
      [] col = "Shares_Count" -> _simulate_shares_count(self, dates)
      [] col = "Comments_Count" -> _simulate_comments_count(self, dates)
      [] col = "Ad_Revenue" -> _simulate_ad_revenue(self, dates)
      [] col = "Creator_Earnings" -> _simulate_creator_earnings(self, dates)
      [] col = "E_Commerce_Revenue" -> _simulate_ecommerce_revenue(self, dates)
      [] col = "Engagement_Rate" -> _simulate_engagement_rate(self, dates)
      [] col = "User_Growth_Rate" -> _simulate_user_growth_rate(self, dates)
      [] col = "Virality_Score" -> _simulate_virality_score(self, dates)
      [] col = "Users_Under_25" -> _simulate_young_users(self, dates)
      [] col = "Users_25_34" -> _simulate_adult_users(self, dates)
      [] col = "Users_Over_35" -> _simulate_older_users(self, dates)

\* row i of a frame: the cells df.loc[i, col]
Row(frame, i) == [c \in DOMAIN frame |-> frame[c][i]]

\* df.loc[i, col] *= factor
Scale(row, col, factor) == [row EXCEPT ![col] = RMul(@, factor)]

\* variant of TrendRule whose maturity adjustment starts with 2018
TrendRule_maturity_from_2018(self, r, row) ==
    LET year == row["Year"]
    IN  CASE r = 1 ->
               IF 2016 <= year /\ year <= 2018
               THEN Scale(row, "User_Growth_Rate", D(12, 10)) ELSE row
          [] r = 2 ->
               IF 2019 <= year /\ year <= 2020
               THEN Scale(row, "Ad_Revenue", D(13, 10)) ELSE row
          [] r = 3 ->
               IF 2020 <= year /\ year <= 2021
               THEN Scale(Scale(row, "Time_Spent_Per_User", D(125, 100)),
                          "Active_Users", D(115, 100))
               ELSE row
          [] r = 4 ->
               IF 2021 <= year /\ year <= 2023 /\ "e-commerce" \in self.config.specialties
               THEN Scale(row, "E_Commerce_Revenue", D(14, 10)) ELSE row
          [] r = 5 ->
               IF year >= 2018 /\ self.config.market_type = "mature"
               THEN Scale(row, "User_Growth_Rate", D(7, 10)) ELSE row

\* variant of TrendRule whose e-commerce adjustment does not test the
\* specialty
TrendRule_ecommerce_everywhere(self, r, row) ==
    LET year == row["Year"]
    IN  CASE r = 1 ->
               IF 2016 <= year /\ year <= 2018
               THEN Scale(row, "User_Growth_Rate", D(12, 10)) ELSE row
          [] r = 2 ->
               IF 2019 <= year /\ year <= 2020
               THEN Scale(row, "Ad_Revenue", D(13, 10)) ELSE row
          [] r = 3 ->
               IF 2020 <= year /\ year <= 2021
               THEN Scale(Scale(row, "Time_Spent_Per_User", D(125, 100)),
                          "Active_Users", D(115, 100))
               ELSE row
          [] r = 4 ->
               IF 2021 <= year /\ year <= 2023
               THEN Scale(row, "E_Commerce_Revenue", D(14, 10)) ELSE row
          [] r = 5 ->
               IF year >= 2023 /\ self.config.market_type = "mature"
               THEN Scale(row, "User_Growth_Rate", D(7, 10)) ELSE row

\* variant of TrendRule whose 2020-2021 adjustment scales Active_Users by 1.5
TrendRule_active_by_half(self, r, row) ==
    LET year == row["Year"]
    IN  CASE r = 1 ->
               IF 2016 <= year /\ year <= 2018
               THEN Scale(row, "User_Growth_Rate", D(12, 10)) ELSE row
          [] r = 2 ->
               IF 2019 <= year /\ year <= 2020
               THEN Scale(row, "Ad_Revenue", D(13, 10)) ELSE row
          [] r = 3 ->
               IF 2020 <= year /\ year <= 2021
               THEN Scale(Scale(row, "Time_Spent_Per_User", D(125, 100)),
                          "Active_Users", D(15, 10))
               ELSE row
          [] r = 4 ->
               IF 2021 <= year /\ year <= 2023 /\ "e-commerce" \in self.config.specialties
               THEN Scale(row, "E_Commerce_Revenue", D(14, 10)) ELSE row
          [] r = 5 ->
               IF year >= 2023 /\ self.config.market_type = "mature"
               THEN Scale(row, "User_Growth_Rate", D(7, 10)) ELSE row

\* variant of TrendRule whose 2019-2020 adjustment also scales
\* Creator_Earnings
TrendRule_scaling_earnings(self, r, row) ==
    LET year == row["Year"]
    IN  CASE r = 1 ->
               IF 2016 <= year /\ year <= 2018
               THEN Scale(row, "User_Growth_Rate", D(12, 10)) ELSE row
          [] r = 2 ->
               IF 2019 <= year /\ year <= 2020
               THEN Scale(Scale(row, "Ad_Revenue", D(13, 10)),
                          "Creator_Earnings", D(13, 10))
               ELSE row
          [] r = 3 ->
               IF 2020 <= year /\ year <= 2021
               THEN Scale(Scale(row, "Time_Spent_Per_User", D(125, 100)),
                          "Active_Users", D(115, 100))
               ELSE row
          [] r = 4 ->
               IF 2021 <= year /\ year <= 2023 /\ "e-commerce" \in self.config.specialties
               THEN Scale(row, "E_Commerce_Revenue", D(14, 10)) ELSE row
          [] r = 5 ->
               IF year >= 2023 /\ self.config.market_type = "mature"
               THEN Scale(row, "User_Growth_Rate", D(7, 10)) ELSE row

\* variant of TrendRule whose 2020-2021 adjustment also scales Likes_Count
TrendRule_scaling_likes(self, r, row) ==
    LET year == row["Year"]
    IN  CASE r = 1 ->
               IF 2016 <= year /\ year <= 2018
               THEN Scale(row, "User_Growth_Rate", D(12, 10)) ELSE row
          [] r = 2 ->
               IF 2019 <= year /\ year <= 2020
               THEN Scale(row, "Ad_Revenue", D(13, 10)) ELSE row
          [] r = 3 ->
               IF 2020 <= year /\ year <= 2021
               THEN Scale(Scale(Scale(row, "Time_Spent_Per_User", D(125, 100)),
                                "Active_Users", D(115, 100)),
                          "Likes_Count", D(115, 100))
               ELSE row
          [] r = 4 ->
               IF 2021 <= year /\ year <= 2023 /\ "e-commerce" \in self.config.specialties
               THEN Scale(row, "E_Commerce_Revenue", D(14, 10)) ELSE row
          [] r = 5 ->
               IF year >= 2023 /\ self.config.market_type = "mature"
               THEN Scale(row, "User_Growth_Rate", D(7, 10)) ELSE row

\* the five adjustments of _add_country_trends, in source order, on one row
TrendRule(self, r, row) ==
    LET year == row["Year"]
    IN  CASE r = 1 ->
               IF 2016 <= year /\ year <= 2018
               THEN Scale(row, "User_Growth_Rate", D(12, 10)) ELSE row
          [] r = 2 ->
               IF 2019 <= year /\ year <= 2020
               THEN Scale(row, "Ad_Revenue", D(13, 10)) ELSE row
          [] r = 3 ->
               IF 2020 <= year /\ year <= 2021
               THEN Scale(Scale(row, "Time_Spent_Per_User", D(125, 100)),
                          "Active_Users", D(115, 100))
               ELSE row
          [] r = 4 ->
               IF 2021 <= year /\ year <= 2023 /\ "e-commerce" \in self.config.specialties
               THEN Scale(row, "E_Commerce_Revenue", D(14, 10)) ELSE row
          [] r = 5 ->
               IF year >= 2023 /\ self.config.market_type = "mature"
               THEN Scale(row, "User_Growth_Rate", D(7, 10)) ELSE row

RECURSIVE TrendRules(_, _, _)
TrendRules(self, order, row) ==
    IF order = <<>> THEN row
    ELSE TrendRules(self, Tail(order), TrendRule(self, Head(order), row))

\* the body of the iterrows loop: the five adjustments in source order
TrendRow(self, row) == TrendRules(self, <<1, 2, 3, 4, 5>>, row)

\* the loop over the rows; an iteration writes cells of its own row only
_add_country_trends(self, frame) ==
    [c \in DOMAIN frame |->
       [i \in 1..Len(frame[c]) |-> TrendRow(self, Row(frame, i))[c]]]

\* generate_tiktok_data as a function of the analyzer: the 18 columns, then
\* the trend pass
RawTable(self) ==
    LET dates == date_range(self.start_year, self.end_year)
    IN  [c \in ColumnSet |-> ColumnValue(self, c, dates)]

generate_tiktok_data(self) == _add_country_trends(self, RawTable(self))

(***************************************************************************)
(* Reporting: what create_tiktok_analysis and its helpers compute from the *)
(* table they are handed.  Each returns the frame as it leaves it.         *)
(***************************************************************************)
\* variant of _plot_user_demographics whose bottom is the first category's
\* column itself, so that bottom += ... writes into the frame
plot_user_demographics_aliased(frame) ==
    LET stacked == [k \in 1..Len(frame["Year"]) |->
                      RAdd(RAdd(frame["Users_Under_25"][k], frame["Users_25_34"][k]),
                           frame["Users_Over_35"][k])]
    IN  [df |-> [frame EXCEPT !["Users_Under_25"] = stacked], bottom |-> stacked]

\* bottom = np.zeros(len(years)); for each category: bottom += df[category]
_plot_user_demographics(frame) ==
    [df |-> frame,
     bottom |-> [k \in 1..Len(frame["Year"]) |->
                   RAdd(RAdd(RAdd(RInt(0), frame["Users_Under_25"][k]),
                             frame["Users_25_34"][k]),
                        frame["Users_Over_35"][k])]]

\* the recommendations printed under "7."
_generate_tiktok_insights(self, frame) ==
    [df |-> frame,
     recommendations |->
        (IF self.config.market_type \in {"mature", "booming", "emerging"}
         THEN {self.config.market_type} ELSE {})
        \cup (self.config.specialties \cap {"e-commerce", "music", "education"})]

create_tiktok_analysis(self, frame) ==
    LET plotted == _plot_user_demographics(frame)
        insights == _generate_tiktok_insights(self, plotted.df)
    IN  [df |-> insights.df,
         bottom |-> plotted.bottom,
         recommendations |-> insights.recommendations]

\* tiktok_data.to_csv(output_file, index=False)
to_csv(name, frame) ==
    [df |-> frame,
     file |-> [name |-> <<name, "_tiktok_data_2016_2025.csv">>, table |-> frame]]

(***************************************************************************)
(* main(): reading the selection.  A line is a sequence of characters.     *)
(***************************************************************************)
MaxLine == 2
Alphabet == {"0", "1", "5", "6", "-", " "}

RECURSIVE LinesUpTo(_)
LinesUpTo(n) ==
    IF n = 0 THEN {<<>>}
    ELSE LET shorter == LinesUpTo(n - 1)
         IN  shorter \cup {Append(l, ch) : l \in {x \in shorter : Len(x) = n - 1},
                                            ch \in Alphabet}

Lines == LinesUpTo(MaxLine)

IsDigit(ch) == ch \in {"0", "1", "2", "3", "4", "5", "6", "7", "8", "9"}

DigitValue(ch) ==
    CASE ch = "0" -> 0 [] ch = "1" -> 1 [] ch = "2" -> 2 [] ch = "3" -> 3
      [] ch = "4" -> 4 [] ch = "5" -> 5 [] ch = "6" -> 6 [] ch = "7" -> 7
      [] ch = "8" -> 8 [] ch = "9" -> 9

RECURSIVE StripLeft(_)
StripLeft(l) == IF l # <<>> /\ Head(l) = " " THEN StripLeft(Tail(l)) ELSE l

RECURSIVE StripRight(_)
StripRight(l) ==
    IF l # <<>> /\ l[Len(l)] = " " THEN StripRight(SubSeq(l, 1, Len(l) - 1)) ELSE l

RECURSIVE DecimalValue(_)
DecimalValue(l) ==
    IF l = <<>> THEN 0
    ELSE 10 * DecimalValue(SubSeq(l, 1, Len(l) - 1)) + DigitValue(l[Len(l)])

\* Python's int(str): surrounding blanks dropped, an optional sign, then one
\* or more digits; anything else raises ValueError
int(l) ==
    LET t == StripRight(StripLeft(l))
        signed == t # <<>> /\ Head(t) \in {"+", "-"}
        digits == IF signed THEN Tail(t) ELSE t
    IN  IF digits # <<>> /\ \A k \in 1..Len(digits) : IsDigit(digits[k])
        THEN [exc |-> "none",
              value |-> IF signed /\ Head(t) = "-"
                        THEN -DecimalValue(digits) ELSE DecimalValue(digits)]
        ELSE [exc |-> "ValueError", value |-> 0]

\* Python's list[j]: negative j counts from the end
index(list, j) ==
    IF 0 <= j /\ j < Len(list) THEN [exc |-> "none", value |-> list[j + 1]]
    ELSE IF -Len(list) <= j /\ j < 0
    THEN [exc |-> "none", value |-> list[Len(list) + j + 1]]
    ELSE [exc |-> "IndexError", value |-> ""]

\* variant of select_try without the range test on choix
select_try_unchecked(line) ==
    LET choix == int(line)
    IN  IF choix.exc # "none" THEN [exc |-> choix.exc, value |-> ""]
        ELSE index(countries, choix.value - 1)

\* the try block of main()
select_try(line) ==
    LET choix == int(line)
    IN  IF choix.exc # "none" THEN [exc |-> choix.exc, value |-> ""]
        ELSE IF choix.value < 1 \/ choix.value > Len(countries)
        THEN [exc |-> "ValueError", value |-> ""]
        ELSE index(countries, choix.value - 1)

\* try / except (ValueError, IndexError) of main()
select_country(line) ==
    LET tried == select_try(line)
    IN  IF tried.exc = "none"
        THEN [aborted |-> FALSE, notice |-> FALSE, pays_selectionne |-> tried.value]
        ELSE IF tried.exc \in {"ValueError", "IndexError"}
        THEN [aborted |-> FALSE, notice |-> TRUE, pays_selectionne |-> "United States"]
        ELSE [aborted |-> TRUE, notice |-> FALSE, pays_selectionne |-> ""]

(***************************************************************************)
(* The state machine.                                                      *)
(***************************************************************************)
\* how many times generate_tiktok_data is called on one analyzer
MaxRuns == 2

\* country names a caller constructs an analyzer with: the configured ones
\* and names the configuration does not list
Names == DOMAIN configs \cup {"Canada", ""}

NoAnalyzer ==
    [country |-> "", start_year |-> 0, end_year |-> 0,
     config |-> Profile(0, 0, "", {})]
NoFile == [name |-> <<>>, table |-> Empty]
NoReport == [bottom |-> <<>>, recommendations |-> {}]

\* no call of _simulate_user_growth_rate is being followed
NoLoop ==
    [self |-> NoAnalyzer, position |-> "none", i |-> 0,
     previous_users |-> RInt(0), growth_rates |-> <<>>, trace |-> <<>>]

vars == <<pc, entry, selection, notice, analyzer, data, df, prev_df, runs, csv, report, loop>>

Init ==
    /\ pc = "start"
    /\ entry = "none"
    /\ selection = <<>>
    /\ notice = FALSE
    /\ analyzer = NoAnalyzer
    /\ data = Empty
    /\ df = Empty
    /\ prev_df = Empty
    /\ runs = 0
    /\ csv = NoFile
    /\ report = NoReport
    /\ loop = NoLoop

\* main(), lines 808-818: read the selection, pick the country, construct
MainSelect(line) ==
    /\ pc = "start"
    /\ LET sel == select_country(line)
       IN  /\ entry' = "main"
           /\ selection' = line
           /\ notice' = sel.notice
           /\ IF sel.aborted
              THEN pc' = "aborted" /\ UNCHANGED analyzer
              ELSE /\ pc' = "constructed"
                   /\ analyzer' = TikTokCountryAnalyzer(sel.pays_selectionne)
    /\ UNCHANGED <<loop, data, df, prev_df, runs, csv, report>>

\* a caller constructs the analyzer with a name of its own
DirectConstruct(name) ==
    /\ pc = "start"
    /\ entry' = "direct"
    /\ analyzer' = TikTokCountryAnalyzer(name)
    /\ pc' = "constructed"
    /\ UNCHANGED <<loop, selection, notice, data, df, prev_df, runs, csv, report>>

\* generate_tiktok_data is entered: main() calls it once, another caller may
\* call it again on the same analyzer
GenerateStart ==
    /\ \/ pc = "constructed"
       \/ entry = "direct" /\ pc \in {"returned", "analysed"} /\ runs < MaxRuns
    /\ pc' = "building"
    /\ data' = Empty
    /\ prev_df' = df
    /\ df' = Empty
    /\ UNCHANGED <<loop, entry, selection, notice, analyzer, runs, csv, report>>

\* data[col] = ... for the next column, in source order
BuildColumn ==
    /\ pc = "building"
    /\ Cardinality(DOMAIN data) < Len(Columns)
    /\ LET col == Columns[Cardinality(DOMAIN data) + 1]
           dates == date_range(analyzer.start_year, analyzer.end_year)
           value == ColumnValue(analyzer, col, dates)
       IN  data' = [c \in DOMAIN data \cup {col} |->
                      IF c = col THEN value ELSE data[c]]
    /\ UNCHANGED <<loop, pc, entry, selection, notice, analyzer, df, prev_df, runs, csv, report>>

\* df = pd.DataFrame(data)
MakeFrame ==
    /\ pc = "building"
    /\ Cardinality(DOMAIN data) = Len(Columns)
    /\ df' = data
    /\ pc' = "framed"
    /\ UNCHANGED <<loop, entry, selection, notice, analyzer, data, prev_df, runs, csv, report>>

\* self._add_country_trends(df)
AddCountryTrends ==
    /\ pc = "framed"
    /\ df' = _add_country_trends(analyzer, df)
    /\ pc' = "trended"
    /\ UNCHANGED <<loop, entry, selection, notice, analyzer, data, prev_df, runs, csv, report>>

\* return df
Return ==
    /\ pc = "trended"
    /\ pc' = "returned"
    /\ data' = Empty
    /\ runs' = runs + 1
    /\ UNCHANGED <<loop, entry, selection, notice, analyzer, df, prev_df, csv, report>>

\* main(), lines 824-830: the CSV export
ExportCsv ==
    /\ entry = "main"
    /\ pc = "returned"
    /\ LET out == to_csv(analyzer.country, df)
       IN  df' = out.df /\ csv' = out.file
    /\ pc' = "exported"
    /\ UNCHANGED <<loop, entry, selection, notice, analyzer, data, prev_df, runs, report>>

\* analyzer.create_tiktok_analysis(df)
CreateAnalysis ==
    /\ \/ entry = "main" /\ pc = "exported"
       \/ entry = "direct" /\ pc = "returned"
    /\ LET out == create_tiktok_analysis(analyzer, df)
       IN  /\ df' = out.df
           /\ report' = [bottom |-> out.bottom, recommendations |-> out.recommendations]
    /\ pc' = "analysed"
    /\ UNCHANGED <<loop, entry, selection, notice, analyzer, data, prev_df, runs, csv>>

\* main(), lines 836-838: the closing messages
MainFinish ==
    /\ entry = "main"
    /\ pc = "analysed"
    /\ pc' = "done"
    /\ UNCHANGED <<loop, entry, selection, notice, analyzer, data, df, prev_df, runs, csv, report>>

Next ==
    \/ \E line \in Lines : MainSelect(line)
    \/ \E name \in Names : DirectConstruct(name)
    \/ GenerateStart
    \/ BuildColumn
    \/ MakeFrame
    \/ AddCountryTrends
    \/ Return
    \/ ExportCsv
    \/ CreateAnalysis
    \/ MainFinish

Spec == Init /\ [][Next]_vars

(***************************************************************************)
(* _simulate_user_growth_rate followed statement by statement, on          *)
(* analyzers whose config is any profile of the shape of the configured    *)
(* ones, a zero base and a zero population included.                       *)
(***************************************************************************)
PopulationBases == {0, 1, 50000000}
UserBases == {0, 1, 10000000, 60000000}
MarketTypes == {"mature", "booming", "emerging", "growing", "domestic", "regulated"}
Profiles ==
    {Profile(pop, users, market, {}) :
        pop \in PopulationBases, users \in UserBases, market \in MarketTypes}

\* the dates generate_tiktok_data passes to the stage
GrowthDates(self) == date_range(self.start_year, self.end_year)

GrowthInit ==
    /\ pc = "start"
    /\ entry = "none"
    /\ selection = <<>>
    /\ notice = FALSE
    /\ analyzer = NoAnalyzer
    /\ data = Empty
    /\ df = Empty
    /\ prev_df = Empty
    /\ runs = 0
    /\ csv = NoFile
    /\ report = NoReport
    /\ \E profile \in Profiles :
          loop = [NoLoop EXCEPT
                    !.self = [country |-> "", start_year |-> start_year,
                              end_year |-> end_year, config |-> profile],
                    !.position = "called"]

\* lines 418-419: growth_rates = [], previous_users = tiktok_users_base
GrowthEnter ==
    /\ loop.position = "called"
    /\ loop' = [loop EXCEPT
                  !.position = "loop",
                  !.growth_rates = <<>>,
                  !.previous_users = RInt(loop.self.config.tiktok_users_base)]
    /\ UNCHANGED <<pc, entry, selection, notice, analyzer, data, df, prev_df,
                   runs, csv, report>>

\* lines 421-425: one iteration of the loop
GrowthIterate ==
    /\ loop.position = "loop"
    /\ loop.i < Len(GrowthDates(loop.self))
    /\ LET date == GrowthDates(loop.self)[loop.i + 1]
           current_users == _simulate_tiktok_users(loop.self, <<date>>)[1]
           rate == growth_rate(current_users, loop.previous_users)
           step == [previous_users |-> loop.previous_users,
                    divisor |-> rate.divisor, exc |-> rate.exc,
                    value |-> rate.value]
       IN  IF rate.exc # "none"
           THEN loop' = [loop EXCEPT !.position = "raised",
                                     !.trace = Append(@, step)]
           ELSE loop' = [loop EXCEPT
                           !.i = @ + 1,
                           !.growth_rates = Append(@, rate.value),
                           !.previous_users = current_users,
                           !.trace = Append(@, step)]
    /\ UNCHANGED <<pc, entry, selection, notice, analyzer, data, df, prev_df,
                   runs, csv, report>>

\* line 427: return growth_rates
GrowthReturn ==
    /\ loop.position = "loop"
    /\ loop.i = Len(GrowthDates(loop.self))
    /\ loop' = [loop EXCEPT !.position = "returned"]
    /\ UNCHANGED <<pc, entry, selection, notice, analyzer, data, df, prev_df,
                   runs, csv, report>>

GrowthNext ==
    \/ GrowthEnter
    \/ GrowthIterate
    \/ GrowthReturn

GrowthSpec == GrowthInit /\ [][GrowthNext]_vars

(***************************************************************************)
(* Properties.                                                             *)
(***************************************************************************)
\* the table has been through the trend pass
Final == pc \in {"trended", "returned", "exported", "analysed", "done"}

Rows(frame) == 1..Len(frame["Year"])

\* the row of a calendar year
RowOf(year) == year - start_year + 1

\* population_base x (0.45 for a domestic market, 0.65 otherwise)
Ceiling(self) ==
    RMul(RInt(self.config.population_base),
         IF self.config.market_type = "domestic" THEN D(45, 100) ELSE D(65, 100))

\* C1: in every record of the final table the three age brackets add up to
\* the record's TikTok_Users.
C1_BracketsSumToUsers ==
    Final =>
      \A k \in Rows(df) :
         REq(RAdd(RAdd(df["Users_Under_25"][k], df["Users_25_34"][k]),
                  df["Users_Over_35"][k]),
             df["TikTok_Users"][k])

\* C2: TikTok_Users never exceeds population_base x ceilingFraction, in the
\* column (while it is built, in the frame, after the trend pass) and in the
\* re-derivation of every single date.
C2_UsersUnderCeiling ==
    /\ "TikTok_Users" \in DOMAIN data =>
         \A k \in 1..Len(data["TikTok_Users"]) :
            RLe(data["TikTok_Users"][k], Ceiling(analyzer))
    /\ "TikTok_Users" \in DOMAIN df =>
         \A k \in Rows(df) : RLe(df["TikTok_Users"][k], Ceiling(analyzer))
    /\ pc \notin {"start", "aborted"} =>
         \A year \in start_year..end_year :
            RLe(_simulate_tiktok_users(analyzer, <<year>>)[1], Ceiling(analyzer))

\* a returned table in which the clamp decided a cell, and one whose market
\* is domestic
C2_Witness ==
    /\ pc = "returned"
    /\ \E k \in Rows(df) :
          /\ REq(df["TikTok_Users"][k], Ceiling(analyzer))
          /\ RCmp(RMul(RInt(analyzer.config.tiktok_users_base),
                       RAdd(RInt(1), RMul(D(40, 100), RInt(k - 1)))),
                  Ceiling(analyzer)) > 0
          /\ analyzer.config.market_type = "emerging"

\* C3: every cell of the final table is >= 0, the growth rate of a mature
\* market in 2020 included.
C3_NonNegative ==
    Final =>
      \A k \in Rows(df) :
         /\ df["Year"][k] >= 0
         /\ \A c \in MetricColumns : df[c][k].s >= 0

\* a final table of a mature market whose TikTok_Users falls from 2019 to 2020
C3_Witness ==
    /\ Final
    /\ analyzer.config.market_type = "mature"
    /\ RCmp(df["TikTok_Users"][RowOf(2020)], df["TikTok_Users"][RowOf(2019)]) < 0
    /\ df["User_Growth_Rate"][RowOf(2020)].s >= 0

\* (b - a) / a
RelativeChange(a, b) == RDiv(RSub(b, a), a)

\* C4: the growth-rate stage yields, for every year after the first, the
\* relative change of the table's TikTok_Users from the year before; for the
\* United States in 2017 that is 0.35 before the trend pass and 0.42 after.
C4_GrowthFromTable ==
    /\ pc = "framed" =>
         \A k \in Rows(df) \ {1} :
            REq(df["User_Growth_Rate"][k],
                RelativeChange(df["TikTok_Users"][k - 1], df["TikTok_Users"][k]))
    /\ pc = "framed" /\ analyzer.country = "United States" =>
         REq(df["User_Growth_Rate"][RowOf(2017)], D(35, 100))
    /\ Final /\ analyzer.country = "United States" =>
         REq(df["User_Growth_Rate"][RowOf(2017)], D(42, 100))

\* C5: the growth-rate stage's value for 2016 is the relative change from
\* tiktok_users_base to the first record's TikTok_Users.
C5_FirstYearGrowth ==
    /\ "User_Growth_Rate" \in DOMAIN data =>
         REq(data["User_Growth_Rate"][1],
             RelativeChange(RInt(analyzer.config.tiktok_users_base),
                            data["TikTok_Users"][1]))
    /\ pc = "framed" =>
         REq(df["User_Growth_Rate"][1],
             RelativeChange(RInt(analyzer.config.tiktok_users_base),
                            df["TikTok_Users"][1]))

\* the frame as the stages left it, for a profile with a positive base
C5_Witness ==
    /\ pc = "framed"
    /\ analyzer.config.tiktok_users_base > 0
    /\ df["Year"][1] = start_year
    /\ RIsNum(df["User_Growth_Rate"][1])

\* C6: in every record of the final table Shares_Count is 0.08 x Likes_Count
\* and Comments_Count is 0.05 x Likes_Count.
C6_SharesAndComments ==
    Final =>
      \A k \in Rows(df) :
         /\ REq(df["Shares_Count"][k], RMul(D(8, 100), df["Likes_Count"][k]))
         /\ REq(df["Comments_Count"][k], RMul(D(5, 100), df["Likes_Count"][k]))

\* a returned table whose likes are positive and whose 2020 and 2021 rows the
\* trend pass has scaled
C6_Witness ==
    /\ pc = "returned"
    /\ \A year \in {2020, 2021} :
          /\ df["Likes_Count"][RowOf(year)].s > 0
          /\ REq(df["Active_Users"][RowOf(year)],
                 RMul(D(115, 100), _simulate_active_users(analyzer, <<year>>)[1]))

\* the 15 names of the configuration other than "default"
Configured == DOMAIN configs \ {"default"}

\* C7: a name outside the 15 configured ones gets the "default" profile, and
\* the table generated for it is the table generated for "default".
C7_UnknownIsDefault ==
    /\ pc \notin {"start", "aborted"} /\ analyzer.country \notin Configured =>
         analyzer.config = configs["default"]
    /\ Final /\ analyzer.country \notin Configured =>
         df = generate_tiktok_data(TikTokCountryAnalyzer("default"))

\* a table returned for a name the configuration does not list
C7_Witness ==
    /\ pc = "returned"
    /\ analyzer.country = "Canada"
    /\ DOMAIN df = ColumnSet

Selected(line) ==
    IF int(line).exc = "none" /\ int(line).value \in 1..Len(countries)
    THEN countries[int(line).value]
    ELSE "United States"

GeneratePositions == {"building", "framed", "trended"}

\* C10: the table is written only inside generate_tiktok_data; the trend
\* pass starts from a frame holding all 17 metric columns and the Year column
\* in full; the export and the reporting leave every cell as it was.
C10_TableLifecycle ==
    [][ /\ df' # df => pc' \in GeneratePositions
        /\ data' # data => pc \in GeneratePositions
        /\ pc' = "trended" =>
             /\ pc = "framed"
             /\ DOMAIN df = ColumnSet
             /\ \A c \in ColumnSet : Len(df[c]) = end_year - start_year + 1
        /\ pc \in {"returned", "exported", "analysed"} /\ pc' # "building" =>
             df' = df ]_vars

\* main() has exported and reported on a full table
C10_Witness ==
    /\ pc = "done"
    /\ DOMAIN df = ColumnSet
    /\ csv.table = df
    /\ report.bottom # <<>>

\* C11: the table has end_year - start_year + 1 = 10 records, its Year cells
\* are 2016, 2017, ..., 2025 in this order, and every column is as long as
\* the Year column.
C11_TableShape ==
    pc = "framed" \/ Final =>
      /\ DOMAIN df = ColumnSet
      /\ Len(df["Year"]) = end_year - start_year + 1
      /\ Len(df["Year"]) = 10
      /\ \A k \in Rows(df) : df["Year"][k] = start_year + k - 1
      /\ \A k \in Rows(df) \ {1} : df["Year"][k] - df["Year"][k - 1] = 1
      /\ df["Year"][Len(df["Year"])] = end_year
      /\ \A c \in MetricColumns : Len(df[c]) = Len(df["Year"])

\* a returned table whose first and last records are those of 2016 and 2025
C11_Witness ==
    /\ pc = "returned"
    /\ df["Year"][1] = 2016
    /\ df["Year"][Len(df["Year"])] = 2025
    /\ Len(df["Users_Over_35"]) = 10

\* 0.75 for a mature market, 0.85 for a booming one, 0.70 otherwise
ActiveRate(self) ==
    IF self.config.market_type = "mature" THEN D(75, 100)
    ELSE IF self.config.market_type = "booming" THEN D(85, 100)
    ELSE D(70, 100)

\* C13: Active_Users as the active-users stage computes it is the same
\* record's TikTok_Users x activeRate; the final table has this value outside
\* 2020-2021 and 1.15 times it in 2020-2021.
C13_ActiveFromUsers ==
    /\ pc = "framed" =>
         \A k \in Rows(df) :
            REq(df["Active_Users"][k], RMul(df["TikTok_Users"][k], ActiveRate(analyzer)))
    /\ Final =>
         \A k \in Rows(df) :
            REq(df["Active_Users"][k],
                RMul(RMul(df["TikTok_Users"][k], ActiveRate(analyzer)),
                     IF df["Year"][k] \in 2020..2021 THEN D(115, 100) ELSE RInt(1)))

(***************************************************************************)
(* The single forward pass of the design notes: each stage once per year,  *)
(* in dependency order, from the same year's values, with i = year - 2016. *)
(***************************************************************************)
ForwardRecord(self, year, previous) ==
    LET i == year - start_year
        market == self.config.market_type
        users == _simulate_tiktok_users(self, date_range(start_year, year))[i + 1]
        active == RMul(users, ActiveRate(self))
        per_user == YearBracket(year, D(8, 10), D(12, 10), D(15, 10), D(18, 10))
        videos == RMul(RMul(active,
                            IF market = "booming" THEN RMul(per_user, D(13, 10))
                            ELSE IF "comedy" \in self.config.specialties
                            THEN RMul(per_user, D(12, 10))
                            ELSE per_user),
                       RInt(365))
        likes == RMul(videos, YearBracket(year, RInt(150), RInt(250), RInt(350), RInt(400)))
        per_active == YearBracket(year, D(25, 10), D(50, 10), D(80, 10), D(120, 10))
        ad == RMul(active,
                   IF market = "mature" THEN RMul(per_active, D(15, 10))
                   ELSE IF market = "regulated" THEN RMul(per_active, D(7, 10))
                   ELSE per_active)
        ecommerce == IF year < 2019 THEN RInt(0)
                     ELSE IF year < 2021 THEN RMul(ad, D(1, 10))
                     ELSE IF year < 2023 THEN RMul(ad, D(2, 10))
                     ELSE RMul(ad, D(3, 10))
        young == IF market = "mature" THEN D(45, 100) ELSE D(60, 100)
    IN  [Year |-> year,
         Population |-> _simulate_population(self, date_range(start_year, year))[i + 1],
         TikTok_Users |-> users,
         Active_Users |-> active,
         Time_Spent_Per_User |-> _simulate_time_spent(self, <<year>>)[1],
         Videos_Uploaded |-> videos,
         Likes_Count |-> likes,
         Shares_Count |-> RMul(likes, D(8, 100)),
         Comments_Count |-> RMul(likes, D(5, 100)),
         Ad_Revenue |-> ad,
         Creator_Earnings |-> RMul(ad, D(25, 100)),
         E_Commerce_Revenue |-> IF "e-commerce" \in self.config.specialties
                                THEN RMul(ecommerce, D(15, 10)) ELSE ecommerce,
         Engagement_Rate |-> _simulate_engagement_rate(self, <<year>>)[1],
         User_Growth_Rate |-> IF previous.s > 0
                              THEN RDiv(RSub(users, previous), previous) ELSE RInt(0),
         Virality_Score |-> _simulate_virality_score(self, <<year>>)[1],
         Users_Under_25 |-> RMul(users, young),
         Users_25_34 |-> RMul(users, D(30, 100)),
         Users_Over_35 |-> RMul(users, RSub(RSub(RInt(1), young), D(30, 100)))]

\* the record of a year, the previous year's TikTok_Users carried forward
ForwardPass(self, year) ==
    ForwardRecord(self, year,
                  IF year = start_year THEN RInt(self.config.tiktok_users_base)
                  ELSE _simulate_tiktok_users(self, date_range(start_year, year - 1))
                         [year - start_year])

\* C14: the table of the per-date re-derivation is, cell for cell, the table
\* of the single forward pass.
C14_ForwardPassEquivalent ==
    pc = "framed" =>
      \A k \in Rows(df) :
         /\ df["Year"][k] = ForwardPass(analyzer, df["Year"][k])["Year"]
         /\ \A c \in MetricColumns :
               REq(df[c][k], ForwardPass(analyzer, df["Year"][k])[c])

\* C15 as stated: in every record of the final table Creator_Earnings is
\* 0.25 x the record's Ad_Revenue, the years 2019-2020 included.
C15_EarningsOfFinalRevenue ==
    Final =>
      \A k \in Rows(df) :
         REq(df["Creator_Earnings"][k], RMul(D(25, 100), df["Ad_Revenue"][k]))

\* C15 (amended): Creator_Earnings is 0.25 x the Ad_Revenue the ad-revenue
\* stage produced: in the final table 0.25 x the record's Ad_Revenue outside
\* 2019-2020, and 0.25 x the record's Ad_Revenue / 1.3 in 2019-2020, where the
\* trend pass scaled Ad_Revenue only.
C15_EarningsOfStageRevenue ==
    /\ pc = "framed" =>
         \A k \in Rows(df) :
            REq(df["Creator_Earnings"][k], RMul(D(25, 100), df["Ad_Revenue"][k]))
    /\ Final =>
         \A k \in Rows(df) :
            REq(RMul(df["Creator_Earnings"][k],
                     IF df["Year"][k] \in 2019..2020 THEN D(13, 10) ELSE RInt(1)),
                RMul(D(25, 100), df["Ad_Revenue"][k]))

\* a returned table with positive earnings in 2019 and 2020
C15_Witness ==
    /\ pc = "returned"
    /\ \A year \in 2019..2020 : df["Creator_Earnings"][RowOf(year)].s > 0

\* the orders in which the five adjustments can be applied
Orders == {p \in [1..5 -> 1..5] : \A a, b \in 1..5 : p[a] = p[b] => a = b}

\* the adjustments that write cell c of a row
Writers(self, row, c) == {r \in 1..5 : TrendRule(self, r, row)[c] # row[c]}

\* C16: no cell is written by more than one of the five adjustments, and the
\* trend pass applied in any order of the adjustments gives the table the
\* source order gives.
C16_OrderIndependent ==
    pc = "trended" =>
      \A k \in Rows(data) :
         /\ \A c \in ColumnSet : Cardinality(Writers(analyzer, Row(data, k), c)) <= 1
         /\ \A p \in Orders : TrendRules(analyzer, p, Row(data, k)) = Row(df, k)

\* a table through the trend pass whose 2020 row lies in two adjustment
\* windows, each of which wrote a cell of it
C16_Witness ==
    /\ pc = "trended"
    /\ Writers(analyzer, Row(data, RowOf(2020)), "Ad_Revenue") = {2}
    /\ Writers(analyzer, Row(data, RowOf(2020)), "Active_Users") = {3}
    /\ Row(df, RowOf(2020)) # Row(data, RowOf(2020))

\* the cell the trend pass is to leave in column c of the record of a year
Adjusted(self, c, year, v) ==
    IF c = "User_Growth_Rate" /\ year \in 2016..2018 THEN RMul(v, D(12, 10))
    ELSE IF c = "User_Growth_Rate" /\ year >= 2023 /\ self.config.market_type = "mature"
    THEN RMul(v, D(7, 10))
    ELSE IF c = "Ad_Revenue" /\ year \in 2019..2020 THEN RMul(v, D(13, 10))
    ELSE IF c = "Time_Spent_Per_User" /\ year \in 2020..2021 THEN RMul(v, D(125, 100))
    ELSE IF c = "Active_Users" /\ year \in 2020..2021 THEN RMul(v, D(115, 100))
    ELSE IF c = "E_Commerce_Revenue" /\ year \in 2021..2023
            /\ "e-commerce" \in self.config.specialties
    THEN RMul(v, D(14, 10))
    ELSE v

\* C17: the trend pass multiplies exactly the listed cells by the listed
\* factors and leaves every other cell as it was; the 2022 row of a profile
\* without the e-commerce specialty is unchanged.
C17_TrendFrame ==
    pc = "trended" =>
      /\ DOMAIN df = DOMAIN data
      /\ \A c \in ColumnSet : \A k \in Rows(data) :
            df[c][k] = Adjusted(analyzer, c, data["Year"][k], data[c][k])
      /\ \A c \in {"Year", "Population", "TikTok_Users", "Videos_Uploaded",
                   "Likes_Count", "Shares_Count", "Comments_Count",
                   "Creator_Earnings", "Engagement_Rate", "Virality_Score",
                   "Users_Under_25", "Users_25_34", "Users_Over_35"} :
            df[c] = data[c]
      /\ "e-commerce" \notin analyzer.config.specialties =>
            Row(df, RowOf(2022)) = Row(data, RowOf(2022))

\* the trend pass has run on the table of a profile without the e-commerce
\* specialty: the 2022 row is as it was, the 2020 row is not
C17_Witness ==
    /\ pc = "trended"
    /\ "e-commerce" \notin analyzer.config.specialties
    /\ Row(df, RowOf(2022)) = Row(data, RowOf(2022))
    /\ ~REq(df["Ad_Revenue"][RowOf(2020)], data["Ad_Revenue"][RowOf(2020)])

\* the share of Ad_Revenue, with the specialty bonus and its 2021-2023
\* adjustment
ECommerceShare(self, year) ==
    RMul(RMul(IF year < 2021 THEN D(1, 10) ELSE IF year < 2023 THEN D(2, 10) ELSE D(3, 10),
              IF "e-commerce" \in self.config.specialties THEN D(15, 10) ELSE RInt(1)),
         IF "e-commerce" \in self.config.specialties /\ year \in 2021..2023
         THEN D(14, 10) ELSE RInt(1))

\* C18 as stated: E_Commerce_Revenue of the final table is 0 before 2019 and
\* from 2019 on the record's Ad_Revenue x the share.
C18_ECommerceOfFinalRevenue ==
    Final =>
      \A k \in Rows(df) :
         IF df["Year"][k] < 2019 THEN df["E_Commerce_Revenue"][k].s = 0
         ELSE REq(df["E_Commerce_Revenue"][k],
                  RMul(df["Ad_Revenue"][k], ECommerceShare(analyzer, df["Year"][k])))

\* C18 (amended): E_Commerce_Revenue of the final table is 0 before 2019 and
\* from 2019 on the share of the Ad_Revenue the ad-revenue stage produced:
\* the record's Ad_Revenue from 2021 on, the record's Ad_Revenue / 1.3 in
\* 2019-2020.
C18_ECommerceOfStageRevenue ==
    Final =>
      \A k \in Rows(df) :
         IF df["Year"][k] < 2019 THEN df["E_Commerce_Revenue"][k].s = 0
         ELSE REq(RMul(df["E_Commerce_Revenue"][k],
                       IF df["Year"][k] \in 2019..2020 THEN D(13, 10) ELSE RInt(1)),
                  RMul(df["Ad_Revenue"][k], ECommerceShare(analyzer, df["Year"][k])))

\* a returned table of a profile with the e-commerce specialty: nothing in
\* 2018, revenue in 2019 and in 2021
C18_Witness ==
    /\ pc = "returned"
    /\ "e-commerce" \in analyzer.config.specialties
    /\ df["E_Commerce_Revenue"][RowOf(2018)].s = 0
    /\ df["E_Commerce_Revenue"][RowOf(2019)].s > 0
    /\ df["E_Commerce_Revenue"][RowOf(2021)].s > 0

\* C19: in every record of the final table Active_Users is at most the
\* record's TikTok_Users.
C19_ActiveAtMostUsers ==
    Final =>
      \A k \in Rows(df) : RLe(df["Active_Users"][k], df["TikTok_Users"][k])

\* a returned table of a booming market whose 2020 and 2021 Active_Users the
\* trend pass has raised to 0.85 x 1.15 of the re-derived users
C19_Witness ==
    /\ pc = "returned"
    /\ analyzer.config.market_type = "booming"
    /\ \A year \in 2020..2021 :
          REq(df["Active_Users"][RowOf(year)],
              RMul(RMul(D(85, 100), D(115, 100)),
                   _simulate_tiktok_users(analyzer, <<year>>)[1]))

\* C12: the growth-rate stage raises no division error; an iteration whose
\* carried previous_users is 0 gives the rate 0 and divides nothing; with a
\* positive base and a positive population_base every iteration divides by
\* a positive number.  The list returned is the stage's.
C12_DivisionGuarded ==
    /\ loop.position # "raised"
    /\ \A k \in 1..Len(loop.trace) :
          /\ loop.trace[k].exc = "none"
          /\ loop.trace[k].previous_users.s = 0 =>
                /\ loop.trace[k].value.s = 0
                /\ loop.trace[k].divisor = <<>>
          /\ (loop.self.config.tiktok_users_base > 0
              /\ loop.self.config.population_base > 0) =>
                /\ loop.trace[k].divisor # <<>>
                /\ loop.trace[k].divisor[1].s > 0
    /\ loop.position = "returned" =>
          loop.growth_rates = _simulate_user_growth_rate(loop.self, GrowthDates(loop.self))

\* the stage has returned for a profile with tiktok_users_base = 0: ten
\* rates, each 0, and no division
C12_Witness ==
    /\ loop.position = "returned"
    /\ loop.self.config.tiktok_users_base = 0
    /\ Len(loop.growth_rates) = 10
    /\ \A k \in 1..10 : loop.trace[k].previous_users.s = 0 /\ loop.trace[k].divisor = <<>>

====
